---- MODULE Spec2Model ----
(***************************************************************************)
(* Camera session and capture orchestration of remote_camera_controller.   *)
(*                                                                         *)
(* Eight specifications share the state below.                             *)
(*   TimelapseSpec     two request threads running the timelapse routes    *)
(*                     at once, and the timelapse loop threads.            *)
(*   TimelapseRunSpec  the same routes with one client, one request at a   *)
(*                     time, and larger counts.                            *)
(*   PreviewSpec       two request threads running the preview routes, the *)
(*                     single capture route, the status route and the      *)
(*                     settings route at once, and the preview loop        *)
(*                     threads.                                            *)
(*   PreviewRunSpec    the same routes with one client.                    *)
(*   HandlerSpec       the class CameraHandler on its own: caller threads  *)
(*                     invoking its public methods with the parameters the *)
(*                     methods declare.                                    *)
(*   ConfigSpec        CameraHandler.set_config called by two threads on a *)
(*                     device that holds any one of a family of leaves.    *)
(*   LoopsSpec         the start and stop routes of the preview and of the *)
(*                     timelapse served to one client, with the loop       *)
(*                     threads of both kinds.                              *)
(*   CadenceSpec       one timelapse run from the moment its start was     *)
(*                     answered, with capture calls that return, and the   *)
(*                     stop route.                                         *)
(* The timelapse state and the preview state are disjoint; the two groups  *)
(* of routes meet only at app.camera_lock.                                 *)
(*                                                                         *)
(* The Gate is a threading.Lock (src/app/__init__.py:18): not re-entrant.  *)
(* A thread that asks for it while holding it waits for ever; the model    *)
(* has no step for such a thread.                                          *)
(*                                                                         *)
(* app.camera_handler_instance is None after create_app.  The constructor  *)
(* called by get_camera cannot return (it asks for the Gate that           *)
(* get_camera holds), so the code that follows `cam = get_camera()` in     *)
(* every handler is analysed from the states in which the application      *)
(* object already holds a session as well; Init covers both.               *)
(***************************************************************************)
EXTENDS Integers, Sequences, FiniteSets, TLC

\* ------------------------------------------------------------ bounds
MaxCount == 2      \* largest timelapse count a start request asks for, one client
RaceCount == 1     \* largest timelapse count a start request asks for, two clients
MaxInterval == 1   \* largest timelapse interval (seconds) a start request asks for
MaxTime == 1       \* last value of the wall clock (seconds)

\* ------------------------------------------------------------ threads
Req == {"r1", "r2"}          \* request-handling threads (thread per request)
TL == {"t1", "t2"}           \* Thread objects named "TimelapseThread"
PV == {"p1", "p2"}           \* Thread objects named "PreviewThread"
Callers == {"c1", "c2"}      \* threads calling CameraHandler methods directly
Threads == Req \cup TL \cup PV \cup Callers
None == "none"

VARIABLES
    lock,               \* app.camera_lock / CameraHandler.lock: its holder, or None
    handler,            \* app.camera_handler_instance is not None
    camera,             \* CameraHandler.camera is not None (a connection handle is held)
    opened,             \* connection handles opened by camera.init() and not closed since
    leaf,               \* the configuration leaf of the device that set_config addresses
    outcome,            \* what the device did in the last capture call that reached it
    value,              \* argument `value` of a set_config call
    value_to_set,       \* local value_to_set of a set_config call
    pc,                 \* position of every thread
    op,                 \* operation a request or caller thread is running
    ret,                \* result of the last operation of a request or caller thread
    args,               \* (count, interval) of a start request / of a loop thread
    tl_i,               \* loop variable i of run_timelapse
    tl_cycle,           \* cycle_start of run_timelapse
    tl_folder,          \* sequence_folder_name of run_timelapse
    preview_thread,     \* app.preview_thread
    preview_active,     \* app.preview_active (Event): set means stop
    preview_rate,       \* app.preview_rate
    timelapse_thread,   \* app.timelapse_thread
    timelapse_active,   \* app.timelapse_active (Event): set means stop
    timelapse_status,   \* app.timelapse_status
    now,                \* wall clock, whole seconds
    folders,            \* sequence folders created during the current second
    files,              \* image files on disk, <<directory, name>>
    preview_file        \* what is at the preview artifact path

devVars == <<opened, leaf, outcome>>
setVars == <<value, value_to_set>>
sessVars == <<lock, handler, camera, devVars, setVars>>
callVars == <<pc, op, ret>>
tlLocal == <<args, tl_i, tl_cycle, tl_folder>>
pvVars == <<preview_thread, preview_active, preview_rate>>
tlVars == <<timelapse_thread, timelapse_active, timelapse_status>>
diskVars == <<now, folders, files, preview_file>>
vars == <<sessVars, callVars, tlLocal, pvVars, tlVars, diskVars>>

\* ------------------------------------------------------------ values
NoFolder == <<>>
NoArgs == [count |-> 0, interval |-> 0]
NoRet == <<"none">>

\* app.timelapse_status after create_app
IdleStatus ==
    [active |-> FALSE, message |-> <<"Idle">>, count |-> 0, total |-> 0,
     folder |-> NoFolder]

\* threading.Thread.is_alive(): started and not yet finished
IsAlive(t) == pc[t] \notin {"unused", "created", "dead"}

\* `app.x_thread and app.x_thread.is_alive()`
ThreadRunning(ref) == ref /= None /\ IsAlive(ref)

\* a lock that excludes nobody
AlwaysAcquire(t) == TRUE

\* Lock.acquire() of a threading.Lock succeeds only when nobody holds it,
\* the asking thread included.
CanAcquire(t) == lock = None

\* a Python call binds its keyword and positional arguments to the declared
\* parameters, or raises TypeError before the body runs
CallBinds(params, keywords, npositional) ==
    /\ keywords \subseteq params
    /\ npositional + Cardinality(keywords) <= Cardinality(params)

\* parameters the capture methods declare, besides self
CaptureImageParams == {"download_dir"}
CapturePreviewParams == {"target_path"}

\* f"{i+1:04d}.jpg": the decimal digits of n, left-padded with zeros to 4
RECURSIVE Digits(_)
Digits(n) == IF n < 10 THEN <<n>> ELSE Append(Digits(n \div 10), n % 10)
RECURSIVE PadLeft(_, _)
PadLeft(s, w) == IF Len(s) >= w THEN s ELSE PadLeft(<<0>> \o s, w)
PhotoName(n) == PadLeft(Digits(n), 4)

\* f"{timestamp}_timelapse_{count}x{interval}s"
FolderName(ts, count, interval) == <<ts, count, interval>>

\* ------------------------------------------------------------ Python values
\* largest number among the values and the range limits tried
MaxValue == 2

\* an int n, a float n.0, a str of characters s
PyInt(n) == [t |-> "int", n |-> n, s |-> <<>>]
PyFloat(n) == [t |-> "float", n |-> n, s |-> <<>>]
PyStr(s) == [t |-> "str", n |-> 0, s |-> s]

\* no value bound yet
NoValue == [t |-> "none", n |-> 0, s |-> <<>>]

\* a conversion that raised ValueError
ValueError == [t |-> "ValueError", n |-> 0, s |-> <<>>]

DigitChars == <<"0", "1", "2", "3", "4", "5", "6", "7", "8", "9">>

\* the characters of a sequence of decimal digits
RECURSIVE Chars(_)
Chars(ds) == IF ds = <<>> THEN <<>> ELSE <<DigitChars[Head(ds) + 1]>> \o Chars(Tail(ds))

\* str(v): "2" for the int 2, "2.0" for the float 2.0, a str as it is
Str(v) ==
    CASE v.t = "int" -> Chars(Digits(v.n))
      [] v.t = "float" -> Chars(Digits(v.n)) \o <<".", "0">>
      [] OTHER -> v.s

\* a non-empty str of decimal digits, and the number it spells
IsDigits(s) == Len(s) > 0 /\ \A i \in 1..Len(s) : \E d \in 1..10 : DigitChars[d] = s[i]
RECURSIVE Number(_)
Number(s) ==
    IF Len(s) = 0 THEN 0
    ELSE 10 * Number(SubSeq(s, 1, Len(s) - 1))
           + (CHOOSE d \in 0..9 : DigitChars[d + 1] = s[Len(s)])

\* a str "digits.zeros": the spelling of a float without a fraction (other
\* fractions are not among the values tried)
IsWholeDecimal(s) ==
    \E k \in 1..Len(s) :
        /\ s[k] = "."
        /\ IsDigits(SubSeq(s, 1, k - 1))
        /\ \A i \in (k + 1)..Len(s) : s[i] = "0"
WholePart(s) == SubSeq(s, 1, (CHOOSE k \in 1..Len(s) : s[k] = ".") - 1)

\* float(v): a number as a float; a str that spells a number; else ValueError
ToFloat(v) ==
    CASE v.t \in {"int", "float"} -> PyFloat(v.n)
      [] v.t = "str" /\ IsDigits(v.s) -> PyFloat(Number(v.s))
      [] v.t = "str" /\ IsWholeDecimal(v.s) -> PyFloat(Number(WholePart(v.s)))
      [] OTHER -> ValueError

\* int(v): a number truncated; a str of digits only ("2.0" is rejected)
ToInt(v) ==
    CASE v.t \in {"int", "float"} -> PyInt(v.n)
      [] v.t = "str" /\ IsDigits(v.s) -> PyInt(Number(v.s))
      [] OTHER -> ValueError

\* values a caller passes to set_config
Texts == {Chars(Digits(k)) : k \in 0..MaxValue} \cup {<<"1", ".", "0">>, <<"a">>}
RawInputs ==
    {PyInt(k) : k \in 0..MaxValue} \cup {PyFloat(k) : k \in 0..MaxValue}
        \cup {PyStr(s) : s \in Texts}

\* ------------------------------------------------------------ the device's leaf
\* widget types with a list of choices
EnumTypes == {"choice", "radio", "menu"}

RangeLeaf(v, lo, hi, ro) ==
    [type |-> "range", readonly |-> ro, value |-> PyFloat(v), lo |-> lo, hi |-> hi,
     choices |-> {}]
ToggleLeaf(v, ro) ==
    [type |-> "toggle", readonly |-> ro, value |-> PyInt(v), lo |-> 0, hi |-> 0,
     choices |-> {}]
EnumLeaf(ty, v, choices, ro) ==
    [type |-> ty, readonly |-> ro, value |-> v, lo |-> 0, hi |-> 0, choices |-> choices]
TextLeaf(v, ro) ==
    [type |-> "text", readonly |-> ro, value |-> v, lo |-> 0, hi |-> 0, choices |-> {}]

\* values and lists of choices a device reports for a radio or menu widget:
\* the current value need not be one of the choices listed
ChoiceTexts == {<<"0">>, <<"1">>, <<"a">>}
ChoiceLists == {{<<"0">>, <<"1">>}, {<<"1">>, <<"a">>}}

\* leaves a device may hold under the name a set_config call addresses
Leaves ==
    {lf \in {RangeLeaf(v, lo, hi, ro) : v \in 0..MaxValue, lo \in 0..MaxValue,
                                        hi \in 0..MaxValue, ro \in BOOLEAN} :
        lf.lo <= lf.value.n /\ lf.value.n <= lf.hi}
        \cup {ToggleLeaf(v, ro) : v \in {0, 1}, ro \in BOOLEAN}
        \cup {EnumLeaf(ty, PyStr(v), ch, ro) :
                ty \in {"radio", "menu"}, v \in ChoiceTexts, ch \in ChoiceLists, ro \in BOOLEAN}
        \cup {TextLeaf(PyStr(v), ro) : v \in ChoiceTexts, ro \in BOOLEAN}

\* max(min_val, min(max_val, x))
Clamp(lo, hi, x) ==
    LET least == IF x < hi THEN x ELSE hi
    IN  IF least > lo THEN least ELSE lo

\* value_to_set: float() clamped to the range when the range could be read,
\* 1 or 0 from int() for a toggle, str() for every other type
Convert(lf, v, ranged) ==
    CASE lf.type = "range" ->
           IF ToFloat(v) = ValueError THEN ValueError
           ELSE IF ranged THEN PyFloat(Clamp(lf.lo, lf.hi, ToFloat(v).n))
           ELSE ToFloat(v)
      [] lf.type = "toggle" ->
           IF ToInt(v) = ValueError THEN ValueError
           ELSE PyInt(IF ToInt(v).n /= 0 THEN 1 ELSE 0)
      [] OTHER -> PyStr(Str(v))


\* ------------------------------------------------------------ initial states
\* create_app (src/app/__init__.py:17-35), with CameraHandler.__init__
\* (gphoto_handler.py:20-31) for a session that exists
AppInit ==
    /\ lock = None
    /\ handler \in BOOLEAN
    /\ camera \in (IF handler THEN BOOLEAN ELSE {FALSE})
    /\ pc = [t \in Threads |-> IF t \in Req \cup Callers THEN "idle" ELSE "unused"]
    /\ op = [t \in Req \cup Callers |-> "none"]
    /\ ret = [t \in Req \cup Callers |-> NoRet]
    /\ args = [t \in Req \cup TL |-> NoArgs]
    /\ tl_i = [t \in TL |-> 0]
    /\ tl_cycle = [t \in TL |-> 0]
    /\ tl_folder = [t \in TL |-> NoFolder]
    /\ preview_thread = None
    /\ preview_active = FALSE
    /\ preview_rate = 1
    /\ timelapse_thread = None
    /\ timelapse_active = FALSE
    /\ timelapse_status = IdleStatus
    /\ now = 0
    /\ folders = {}
    /\ files = {}
    /\ preview_file = "absent"
    /\ opened = (IF camera THEN 1 ELSE 0)
    /\ outcome = None
    /\ value = [c \in Callers |-> NoValue]
    /\ value_to_set = [c \in Callers |-> NoValue]

\* the application with a device whose leaf no route of it addresses
Init == AppInit /\ leaf = TextLeaf(PyStr(<<"a">>), FALSE)

\* a CameraHandler after its constructor returned
HandlerInit == Init /\ handler

\* ------------------------------------------------------------ control
\* a request arrives / a method is called: the thread starts operation o at l
Begin(t, o, l) ==
    /\ pc[t] = "idle"
    /\ pc' = [pc EXCEPT ![t] = l]
    /\ op' = [op EXCEPT ![t] = o]
    /\ ret' = [ret EXCEPT ![t] = NoRet]

\* the thread moves on inside its operation
Step(t, l) ==
    /\ pc' = [pc EXCEPT ![t] = l]
    /\ UNCHANGED <<op, ret>>

\* the operation is over: r is its result
Return(t, r) ==
    /\ pc' = [pc EXCEPT ![t] = "done"]
    /\ ret' = [ret EXCEPT ![t] = r]
    /\ UNCHANGED op

\* a request for operation o that is answered in the step it arrives in
Answer(t, o, r) ==
    /\ pc[t] = "idle"
    /\ pc' = [pc EXCEPT ![t] = "done"]
    /\ op' = [op EXCEPT ![t] = o]
    /\ ret' = [ret EXCEPT ![t] = r]

\* the result has gone to the client or caller; with threaded=True every
\* request has a thread of its own, which ends here
Finish(t) ==
    /\ pc[t] = "done"
    /\ pc' = [pc EXCEPT ![t] = "idle"]
    /\ op' = [op EXCEPT ![t] = "none"]
    /\ ret' = [ret EXCEPT ![t] = NoRet]
    /\ UNCHANGED <<sessVars, tlLocal, pvVars, tlVars, diskVars>>

\* where a thread goes on with the session get_camera returned
AfterGetCamera(t) ==
    IF t \in TL THEN "tl_mkdir"
    ELSE IF t \in PV THEN "pv_check"
    ELSE CASE op[t] = "status" -> "gs_lock"
           [] op[t] = "settings" -> "lc_lock"
           [] op[t] = "capture" -> "cap_call"
           [] op[t] = "pv_start" -> "ps_clear"
           [] op[t] = "tl_start" -> "ts_clear"

\* ------------------------------------------------------------ get_camera
\* `with app.camera_lock:`
GetCameraEnter(t) ==
    /\ pc[t] = "gc_lock"
    /\ CanAcquire(t)
    /\ lock' = t
    /\ Step(t, "gc_in")
    /\ UNCHANGED <<handler, camera, devVars, setVars, tlLocal, pvVars, tlVars, diskVars>>

\* a get_camera that returns to a loop thread without releasing the lock
GetCameraKeep(t) ==
    /\ pc[t] = "gc_in"
    /\ lock' = IF handler /\ t \in Req THEN None ELSE lock
    /\ Step(t, IF handler THEN AfterGetCamera(t) ELSE "init_lock")
    /\ UNCHANGED <<handler, camera, devVars, setVars, tlLocal, pvVars, tlVars, diskVars>>

\* the body: with no session yet, CameraHandler(lock=app.camera_lock) runs
\* __init__, which calls initialize_camera while get_camera holds the lock;
\* with a session, the lock is released and the session returned
GetCameraBody(t) ==
    /\ pc[t] = "gc_in"
    /\ IF handler
         THEN lock' = None /\ Step(t, AfterGetCamera(t))
         ELSE lock' = lock /\ Step(t, "init_lock")
    /\ UNCHANGED <<handler, camera, devVars, setVars, tlLocal, pvVars, tlVars, diskVars>>

\* ------------------------------------------------------------ CameraHandler
\* a release that closes nothing
KeepCamera(n) == n

\* _release_camera, lock held by the caller: camera.exit() on the handle
\* held; whether exit() returns or raises the reference is dropped, and a
\* handle without a reference is closed by its finaliser
ReleaseCamera(n) == IF camera THEN n - 1 ELSE n

\* initialize_camera: `with self.lock:`
InitializeEnter(t) ==
    /\ pc[t] = "init_lock"
    /\ CanAcquire(t)
    /\ lock' = t
    /\ Step(t, "init_body")
    /\ UNCHANGED <<handler, camera, devVars, setVars, tlLocal, pvVars, tlVars, diskVars>>

\* initialize_camera, lock held: release a handle already held, then
\* camera.init() succeeds (handle stored, returns True) or fails (handle
\* None, ConnectionError raised); the lock is released on the way out
InitializeBody(t) ==
    /\ pc[t] = "init_body"
    /\ \E connected \in BOOLEAN :
         /\ camera' = connected
         /\ opened' = ReleaseCamera(opened) + (IF connected THEN 1 ELSE 0)
         /\ Return(t, IF connected THEN <<"True">> ELSE <<"ConnectionError">>)
    /\ lock' = None
    /\ UNCHANGED <<handler, leaf, outcome, setVars, tlLocal, pvVars, tlVars, diskVars>>

\* _ensure_camera_connected, lock held by the caller: True with a handle;
\* without one it calls initialize_camera, which asks for the lock
EnsureConnected == camera

\* get_status: `with self.lock:`
GetStatusEnter(t) ==
    /\ pc[t] = "gs_lock"
    /\ CanAcquire(t)
    /\ lock' = t
    /\ Step(t, "gs_in")
    /\ UNCHANGED <<handler, camera, devVars, setVars, tlLocal, pvVars, tlVars, diskVars>>

\* get_status, lock held: without a handle it calls initialize_camera (which
\* asks for the lock); with one it queries the summary, and an error
\* releases the handle
GetStatusBody(t) ==
    /\ pc[t] = "gs_in"
    /\ IF ~camera
         THEN Step(t, "init_lock") /\ UNCHANGED <<lock, camera, opened>>
         ELSE \E summary \in {"ok", "GPhoto2Error", "Exception"} :
                /\ camera' = (summary = "ok")
                /\ opened' = IF summary = "ok" THEN opened ELSE ReleaseCamera(opened)
                /\ Return(t, IF summary = "ok" THEN <<"connected">>
                                               ELSE <<"disconnected">>)
                /\ lock' = None
    /\ UNCHANGED <<handler, leaf, outcome, setVars, tlLocal, pvVars, tlVars, diskVars>>

\* list_all_config: `with self.lock:`
ListConfigEnter(t) ==
    /\ pc[t] = "lc_lock"
    /\ CanAcquire(t)
    /\ lock' = t
    /\ Step(t, "lc_in")
    /\ UNCHANGED <<handler, camera, devVars, setVars, tlLocal, pvVars, tlVars, diskVars>>

\* list_all_config, lock held: the tree, or None on a device error; the
\* handle is kept either way
ListConfigBody(t) ==
    /\ pc[t] = "lc_in"
    /\ IF ~EnsureConnected
         THEN Step(t, "init_lock") /\ UNCHANGED lock
         ELSE \E tree \in {"ok", "GPhoto2Error", "Exception"} :
                /\ Return(t, IF tree = "ok" THEN <<"tree">> ELSE <<"None">>)
                /\ lock' = None
    /\ UNCHANGED <<handler, camera, devVars, setVars, tlLocal, pvVars, tlVars, diskVars>>

\* GPhoto2Error codes after which the capture methods release the handle
ReleaseCodes ==
    {"GP_ERROR_IO", "GP_ERROR_PTP_TIMEOUT", "GP_ERROR_CAMERA_BUSY", "GP_ERROR_CAMERA_ERROR"}
OtherCodes == {"GP_ERROR_NOT_SUPPORTED"}

\* an exception raised inside an except clause is not caught by the clauses
\* next to it: the method ends with it
RaisedInHandler == <<"AttributeError">>

\* capture_preview: `with self.lock:`
CapturePreviewEnter(t) ==
    /\ pc[t] = "cp_lock"
    /\ CanAcquire(t)
    /\ lock' = t
    /\ Step(t, "cp_in")
    /\ UNCHANGED <<handler, camera, devVars, setVars, tlLocal, pvVars, tlVars, diskVars>>

\* capture_preview, lock held: one frame from the device written to the
\* target path
CapturePreviewBody(t) ==
    /\ pc[t] = "cp_in"
    /\ IF ~EnsureConnected
         THEN Step(t, "init_lock") /\ UNCHANGED <<lock, camera, opened, outcome, preview_file>>
         ELSE /\ \/ \* frame data written, file not empty
                    /\ outcome' = "frame"
                    /\ preview_file' = "frame"
                    /\ Return(t, <<"True">>)
                    /\ UNCHANGED <<camera, opened>>
                 \/ \* data empty: the target file is removed
                    /\ outcome' = "no data"
                    /\ preview_file' = "absent"
                    /\ Return(t, <<"False">>)
                    /\ UNCHANGED <<camera, opened>>
                 \/ \* data written, os.path.getsize() says 0: the file stays
                    /\ outcome' = "empty file"
                    /\ preview_file' = "empty"
                    /\ Return(t, <<"False">>)
                    /\ UNCHANGED <<camera, opened>>
                 \/ \* GPhoto2Error: the handle is released for the codes listed
                    \E code \in ReleaseCodes \cup OtherCodes :
                        /\ outcome' = code
                        /\ camera' = (code \notin ReleaseCodes)
                        /\ opened' = IF code \in ReleaseCodes THEN ReleaseCamera(opened)
                                                               ELSE opened
                        /\ preview_file' = "absent"
                        /\ Return(t, <<"False">>)
                 \/ \* GPhoto2Error, and the handler's list of codes names a
                    \* constant the binding does not define: AttributeError
                    \* leaves the method from inside the handler
                    \E code \in ReleaseCodes \cup OtherCodes :
                        /\ outcome' = code
                        /\ preview_file' = preview_file
                        /\ Return(t, RaisedInHandler)
                        /\ UNCHANGED <<camera, opened>>
                 \/ \* any other exception
                    /\ outcome' = "Exception"
                    /\ preview_file' = "absent"
                    /\ Return(t, <<"False">>)
                    /\ UNCHANGED <<camera, opened>>
              /\ lock' = None
    /\ UNCHANGED <<handler, leaf, setVars, tlLocal, pvVars, tlVars, now, folders, files>>

\* capture_image: `with self.lock:`
CaptureImageEnter(t) ==
    /\ pc[t] = "ci_lock"
    /\ CanAcquire(t)
    /\ lock' = t
    /\ Step(t, "ci_in")
    /\ UNCHANGED <<handler, camera, devVars, setVars, tlLocal, pvVars, tlVars, diskVars>>

\* capture_image, lock held: capture to the camera's storage, then download
\* into download_dir under the camera's file name when a directory is given
CaptureImageBody(t) ==
    /\ pc[t] = "ci_in"
    /\ IF ~EnsureConnected
         THEN Step(t, "init_lock") /\ UNCHANGED <<lock, camera, opened, outcome, files>>
         ELSE /\ \/ \* captured; downloaded, or left on the camera
                    /\ IF op[t] = "capture_image_dir"
                         THEN \/ /\ outcome' = "frame"
                                 /\ files' = files \cup {<<"download_dir", "camera_name">>}
                                 /\ Return(t, <<"True", "target_filename">>)
                              \/ \* file_get / save failed
                                 /\ outcome' = "download failed"
                                 /\ files' = files
                                 /\ Return(t, <<"False", "None">>)
                         ELSE /\ outcome' = "frame"
                              /\ files' = files
                              /\ Return(t, <<"True", "camera_path">>)
                    /\ UNCHANGED <<camera, opened>>
                 \/ \* GPhoto2Error from capture: released for the codes listed
                    \E code \in ReleaseCodes \cup OtherCodes :
                        /\ outcome' = code
                        /\ camera' = (code \notin ReleaseCodes)
                        /\ opened' = IF code \in ReleaseCodes THEN ReleaseCamera(opened)
                                                               ELSE opened
                        /\ files' = files
                        /\ Return(t, <<"False", "None">>)
                 \/ \* GPhoto2Error, and the handler's list of codes names a
                    \* constant the binding does not define: AttributeError
                    \* leaves the method from inside the handler
                    \E code \in ReleaseCodes \cup OtherCodes :
                        /\ outcome' = code
                        /\ files' = files
                        /\ Return(t, RaisedInHandler)
                        /\ UNCHANGED <<camera, opened>>
                 \/ \* any other exception
                    /\ outcome' = "Exception"
                    /\ files' = files
                    /\ Return(t, <<"False", "None">>)
                    /\ UNCHANGED <<camera, opened>>
              /\ lock' = None
    /\ UNCHANGED <<handler, leaf, setVars, tlLocal, pvVars, tlVars, now, folders, preview_file>>

\* set_config: `with self.lock:`
SetConfigEnter(t) ==
    /\ pc[t] = "sc_lock"
    /\ CanAcquire(t)
    /\ lock' = t
    /\ Step(t, "sc_in")
    /\ UNCHANGED <<handler, camera, devVars, setVars, tlLocal, pvVars, tlVars, diskVars>>

\* set_config returns: the lock is released, the locals are gone
SetConfigReturn(t, r) ==
    /\ Return(t, r)
    /\ lock' = None
    /\ value' = [value EXCEPT ![t] = NoValue]
    /\ value_to_set' = [value_to_set EXCEPT ![t] = NoValue]

\* set_config, lock held, up to the write: the widget is found (or the
\* lookup raises), a read-only widget is refused, the value is converted for
\* the widget's type, checked against the choices when they can be read, and
\* compared as a string with the current value.  The test of the widget type
\* against gp.GP_WIDGET_CHOICE, gp.GP_WIDGET_RADIO, gp.GP_WIDGET_MENU looks
\* the three names up in the binding: a binding without one of them raises
\* AttributeError there, which `except Exception` turns into a failure.
SetConfigBody(t) ==
    /\ pc[t] = "sc_in"
    /\ IF ~EnsureConnected
         THEN /\ Step(t, "init_lock")
              /\ UNCHANGED <<lock, setVars>>
         ELSE \/ SetConfigReturn(t, <<"False", "gphoto2 error">>)
              \/ /\ leaf.readonly
                 /\ SetConfigReturn(t, <<"False", "is read-only.">>)
              \/ /\ ~leaf.readonly
                 /\ \E ranged \in (IF leaf.type = "range" THEN BOOLEAN ELSE {TRUE}),
                       listed \in (IF leaf.type \in EnumTypes THEN BOOLEAN ELSE {TRUE}),
                       named \in BOOLEAN :
                      LET to_set == Convert(leaf, value[t], ranged) IN
                        IF to_set = ValueError
                          THEN SetConfigReturn(t, <<"False", "Invalid value type">>)
                        ELSE IF ~named
                          THEN SetConfigReturn(t, <<"False", "Unexpected error">>)
                        ELSE IF leaf.type \in EnumTypes /\ listed
                                  /\ Str(to_set) \notin leaf.choices
                          THEN SetConfigReturn(t, <<"False", "Invalid value. Available choices:",
                                                    leaf.choices>>)
                        ELSE IF Str(leaf.value) = Str(to_set)
                          THEN SetConfigReturn(t, <<"True", "No change needed.">>)
                        ELSE /\ Step(t, "sc_write")
                             /\ value_to_set' = [value_to_set EXCEPT ![t] = to_set]
                             /\ UNCHANGED <<lock, value>>
    /\ UNCHANGED <<handler, camera, devVars, tlLocal, pvVars, tlVars, diskVars>>

\* widget.set_value(value_to_set); camera.set_config(config): the device
\* takes the value, keeps what it had, or the call raises
SetConfigWrite(t) ==
    /\ pc[t] = "sc_write"
    /\ \/ /\ SetConfigReturn(t, <<"False", "gphoto2 error">>)
          /\ UNCHANGED leaf
       \/ /\ \E taken \in {value_to_set[t], leaf.value} :
               leaf' = [leaf EXCEPT !.value = taken]
          /\ Step(t, "sc_verify")
          /\ UNCHANGED <<lock, setVars>>
    /\ UNCHANGED <<handler, camera, opened, outcome, tlLocal, pvVars, tlVars, diskVars>>

\* the read back: a value that differs as a string is a failure; a read
\* back that raises is logged and the call goes on to report success
SetConfigVerify(t) ==
    /\ pc[t] = "sc_verify"
    /\ \/ IF Str(leaf.value) /= Str(value_to_set[t])
            THEN SetConfigReturn(t, <<"False", "Verification failed.">>)
            ELSE SetConfigReturn(t, <<"True", "updated">>)
       \/ SetConfigReturn(t, <<"True", "updated">>)
    /\ UNCHANGED <<handler, camera, devVars, tlLocal, pvVars, tlVars, diskVars>>

\* ------------------------------------------------------------ direct callers
CallInitialize(c) ==
    /\ Begin(c, "initialize_camera", "init_lock")
    /\ UNCHANGED <<sessVars, tlLocal, pvVars, tlVars, diskVars>>

CallGetStatus(c) ==
    /\ Begin(c, "get_status", "gs_lock")
    /\ UNCHANGED <<sessVars, tlLocal, pvVars, tlVars, diskVars>>

CallListConfig(c) ==
    /\ Begin(c, "list_all_config", "lc_lock")
    /\ UNCHANGED <<sessVars, tlLocal, pvVars, tlVars, diskVars>>

CallCapturePreview(c) ==
    /\ CallBinds(CapturePreviewParams, {}, 1)
    /\ Begin(c, "capture_preview", "cp_lock")
    /\ UNCHANGED <<sessVars, tlLocal, pvVars, tlVars, diskVars>>

CallCaptureImage(c) ==
    /\ \E o \in {"capture_image", "capture_image_dir"} :
         /\ CallBinds(CaptureImageParams,
                      IF o = "capture_image_dir" THEN {"download_dir"} ELSE {}, 0)
         /\ Begin(c, o, "ci_lock")
    /\ UNCHANGED <<sessVars, tlLocal, pvVars, tlVars, diskVars>>

HandlerNext ==
    \E c \in Callers :
        \/ CallInitialize(c)
        \/ CallGetStatus(c)
        \/ CallListConfig(c)
        \/ CallCapturePreview(c)
        \/ CallCaptureImage(c)
        \/ InitializeEnter(c)
        \/ InitializeBody(c)
        \/ GetStatusEnter(c)
        \/ GetStatusBody(c)
        \/ ListConfigEnter(c)
        \/ ListConfigBody(c)
        \/ CapturePreviewEnter(c)
        \/ CapturePreviewBody(c)
        \/ CaptureImageEnter(c)
        \/ CaptureImageBody(c)
        \/ Finish(c)

HandlerSpec == HandlerInit /\ [][HandlerNext]_vars

\* ------------------------------------------------------------ set_config
CallSetConfig(c) ==
    /\ \E v \in RawInputs : value' = [value EXCEPT ![c] = v]
    /\ Begin(c, "set_config", "sc_lock")
    /\ UNCHANGED <<lock, handler, camera, devVars, value_to_set, tlLocal, pvVars, tlVars,
                   diskVars>>

\* a session and a device with any of the leaves
ConfigInit == AppInit /\ handler /\ leaf \in Leaves

ConfigNext ==
    \E c \in Callers :
        \/ CallSetConfig(c)
        \/ SetConfigEnter(c)
        \/ SetConfigBody(c)
        \/ SetConfigWrite(c)
        \/ SetConfigVerify(c)
        \/ Finish(c)

ConfigSpec == ConfigInit /\ [][ConfigNext]_vars

\* ------------------------------------------------------------ thread objects
\* threading.Thread(...): a new object, not started.  Objects are reached only
\* through app.preview_thread / app.timelapse_thread, so an object that is
\* not running and is being replaced lends its name to the new one.
CanCreate(pool, ref) ==
    \/ ref /= None /\ ~IsAlive(ref)
    \/ \E l \in pool : pc[l] = "unused"
NewThread(pool, ref) ==
    IF ref /= None /\ ~IsAlive(ref) THEN ref ELSE CHOOSE l \in pool : pc[l] = "unused"

\* the position of a loop thread whose run function has returned: the object
\* stays as long as the application refers to it
Ended(l, ref) == IF l = ref THEN "dead" ELSE "unused"

\* ------------------------------------------------------------ camera routes
\* GET /api/camera/status
StatusRequest(r) ==
    /\ Begin(r, "status", "gc_lock")
    /\ UNCHANGED <<sessVars, tlLocal, pvVars, tlVars, diskVars>>

\* GET /api/camera/settings
SettingsRequest(r) ==
    /\ Begin(r, "settings", "gc_lock")
    /\ UNCHANGED <<sessVars, tlLocal, pvVars, tlVars, diskVars>>

\* POST /api/capture/single
CaptureRequest(r) ==
    /\ Begin(r, "capture", "gc_lock")
    /\ UNCHANGED <<sessVars, tlLocal, pvVars, tlVars, diskVars>>

\* capture_single_api: cam.capture_image(save_path=capture_file); a TypeError
\* is not caught by the route and the request ends with a 500
CaptureCall(r) ==
    /\ pc[r] = "cap_call"
    /\ IF CallBinds(CaptureImageParams, {"save_path"}, 0)
         THEN Step(r, "ci_lock")
         ELSE Return(r, <<"500">>)
    /\ UNCHANGED <<sessVars, tlLocal, pvVars, tlVars, diskVars>>

\* ------------------------------------------------------------ preview
\* the rate field of a start request: a number, or something float() rejects
RateInputs ==
    {[kind |-> "num", val |-> v] : v \in {0, 1, 2}} \cup {[kind |-> "text", val |-> 0]}

\* `app.preview_rate = float(rate)` is assigned before the value is tested;
\* float() raising leaves the attribute as it was
RateAfter(old, rate) == IF rate.kind = "num" THEN rate.val ELSE old

\* POST /api/preview/start, up to get_camera
PreviewStartRequest(r) ==
    /\ IF ThreadRunning(preview_thread)
         THEN /\ Answer(r, "pv_start", <<"fail", "Preview already running.">>)
              /\ UNCHANGED preview_rate
         ELSE /\ \E rate \in RateInputs : preview_rate' = RateAfter(preview_rate, rate)
              /\ Begin(r, "pv_start", "gc_lock")
    /\ UNCHANGED <<sessVars, tlLocal, preview_thread, preview_active, tlVars, diskVars>>

\* app.preview_active.clear()
PreviewStartClear(r) ==
    /\ pc[r] = "ps_clear"
    /\ preview_active' = FALSE
    /\ Step(r, "ps_thread")
    /\ UNCHANGED <<sessVars, tlLocal, preview_thread, preview_rate, tlVars, diskVars>>

\* app.preview_thread = threading.Thread(target=generate_preview_frames, ...)
PreviewStartThread(r) ==
    /\ pc[r] = "ps_thread"
    /\ CanCreate(PV, preview_thread)
    /\ LET new == NewThread(PV, preview_thread) IN
         /\ preview_thread' = new
         /\ pc' = [pc EXCEPT ![r] = "ps_run", ![new] = "created"]
    /\ UNCHANGED <<sessVars, op, ret, tlLocal, preview_active, preview_rate, tlVars, diskVars>>

\* app.preview_thread.start(): the attribute is read again; None has no
\* start(), and a thread can be started once
PreviewStartRun(r) ==
    /\ pc[r] = "ps_run"
    /\ IF preview_thread /= None /\ pc[preview_thread] = "created"
         THEN /\ pc' = [pc EXCEPT ![r] = "done", ![preview_thread] = "gc_lock"]
              /\ ret' = [ret EXCEPT ![r] = <<"ok">>]
              /\ UNCHANGED op
         ELSE Return(r, <<"500">>)
    /\ UNCHANGED <<sessVars, tlLocal, pvVars, tlVars, diskVars>>

\* POST /api/preview/stop: the test of the running thread
PreviewStopRequest(r) ==
    /\ IF ThreadRunning(preview_thread)
         THEN Begin(r, "pv_stop", "pstop_set")
         ELSE Answer(r, "pv_stop", <<"fail", "Preview not running.">>)
    /\ UNCHANGED <<sessVars, tlLocal, pvVars, tlVars, diskVars>>

\* app.preview_active.set()
PreviewStopSet(r) ==
    /\ pc[r] = "pstop_set"
    /\ preview_active' = TRUE
    /\ Step(r, "pstop_join")
    /\ UNCHANGED <<sessVars, tlLocal, preview_thread, preview_rate, tlVars, diskVars>>

\* app.preview_thread.join(timeout=5.0): returns when the thread has ended
\* or when the timeout has passed; no join on None or on a thread not started
PreviewStopJoin(r) ==
    /\ pc[r] = "pstop_join"
    /\ IF preview_thread = None \/ pc[preview_thread] = "created"
         THEN Return(r, <<"500">>)
         ELSE Step(r, "pstop_drop")
    /\ UNCHANGED <<sessVars, tlLocal, pvVars, tlVars, diskVars>>

\* app.preview_thread.is_alive() for the warning, then app.preview_thread = None
PreviewStopDrop(r) ==
    /\ pc[r] = "pstop_drop"
    /\ IF preview_thread = None
         THEN Return(r, <<"500">>) /\ UNCHANGED preview_thread
         ELSE /\ preview_thread' = None
              /\ pc' = [pc EXCEPT ![r] = "done",
                                  ![preview_thread] = IF IsAlive(preview_thread) THEN @ ELSE "unused"]
              /\ ret' = [ret EXCEPT ![r] = <<"ok">>]
              /\ UNCHANGED op
    /\ UNCHANGED <<sessVars, tlLocal, preview_active, preview_rate, tlVars, diskVars>>

\* a loop condition that does not look at the event
PreviewLoopBlind(p) ==
    /\ pc[p] = "pv_check"
    /\ pc' = [pc EXCEPT ![p] = "pv_capture"]
    /\ UNCHANGED <<sessVars, op, ret, tlLocal, pvVars, tlVars, diskVars>>

\* generate_preview_frames: `while not app.preview_active.is_set():`
PreviewLoopCheck(p) ==
    /\ pc[p] = "pv_check"
    /\ pc' = [pc EXCEPT ![p] = IF preview_active THEN Ended(p, preview_thread) ELSE "pv_capture"]
    /\ UNCHANGED <<sessVars, op, ret, tlLocal, pvVars, tlVars, diskVars>>

\* a capture call outside any try: the TypeError ends the thread
PreviewLoopUncaught(p) ==
    /\ pc[p] = "pv_capture"
    /\ pc' = [pc EXCEPT ![p] = IF CallBinds(CapturePreviewParams, {}, 3)
                                 THEN "cp_lock" ELSE Ended(p, preview_thread)]
    /\ UNCHANGED <<sessVars, op, ret, tlLocal, pvVars, tlVars, diskVars>>

\* cam.capture_preview(PREVIEW_FILE_PATH, rotation, flip) inside try; the
\* except branch goes to the 2 second wait
PreviewLoopCapture(p) ==
    /\ pc[p] = "pv_capture"
    /\ pc' = [pc EXCEPT ![p] = IF CallBinds(CapturePreviewParams, {}, 3)
                                 THEN "cp_lock" ELSE "pv_wait"]
    /\ UNCHANGED <<sessVars, op, ret, tlLocal, pvVars, tlVars, diskVars>>

\* app.preview_active.wait(2.0); continue: returns when the event is set or
\* the 2 seconds have passed
PreviewLoopWait(p) ==
    /\ pc[p] = "pv_wait"
    /\ pc' = [pc EXCEPT ![p] = "pv_check"]
    /\ UNCHANGED <<sessVars, op, ret, tlLocal, pvVars, tlVars, diskVars>>

\* the preview routes and the device routes served to the request threads R,
\* and the preview loop threads
PreviewStep(R) ==
    \/ \E r \in R :
        \/ SettingsRequest(r)
        \/ CaptureRequest(r)
        \/ CaptureCall(r)
        \/ PreviewStartRequest(r)
        \/ PreviewStartClear(r)
        \/ PreviewStartThread(r)
        \/ PreviewStartRun(r)
        \/ PreviewStopRequest(r)
        \/ PreviewStopSet(r)
        \/ PreviewStopJoin(r)
        \/ PreviewStopDrop(r)
        \/ ListConfigEnter(r)
        \/ ListConfigBody(r)
        \/ StatusRequest(r)
        \/ GetStatusEnter(r)
        \/ GetStatusBody(r)
        \/ Finish(r)
    \/ \E p \in PV :
        \/ PreviewLoopCheck(p)
        \/ PreviewLoopCapture(p)
        \/ PreviewLoopWait(p)
    \/ \E t \in R \cup PV :
        \/ GetCameraEnter(t)
        \/ GetCameraBody(t)

\* one client, one request at a time
Client == {"r1"}

\* two clients at once
PreviewNext == PreviewStep(Req)
PreviewSpec == Init /\ [][PreviewNext]_vars

PreviewRunNext == PreviewStep(Client)
PreviewRunSpec == Init /\ [][PreviewRunNext]_vars

\* ------------------------------------------------------------ timelapse
\* the JSON body of a start request: integers, or something int() rejects
ParamInputs(maxcount) ==
    {[kind |-> "int", count |-> c, interval |-> n] : c \in 0..maxcount, n \in 0..MaxInterval}
        \cup {[kind |-> "text", count |-> 0, interval |-> 0]}

\* `if interval <= 0 or count <= 0: raise ValueError`
ValidParams(p) == p.kind = "int" /\ p.interval > 0 /\ p.count > 0

\* the messages run_timelapse and the routes write to the status
StartingMessage == <<"Starting...">>
StoppingMessage == <<"Stopping...">>
CapturingMessage(n, count) == <<"Capturing image", n, "of", count>>
CancelledOneMore(k) == <<"Cancelled after", k + 1, "images.">>
CancelledMessage(k) == <<"Cancelled after", k, "images.">>
CaptureErrorMessage(n) == <<"Error capturing image", n, "Stopping.">>
DirectoryErrorMessage(name) == <<"Error: Cannot create directory", name>>
CompletedMessage(count, name) == <<"Completed", count, "images in folder", name>>
TerminatedAsStopping == <<"Stopping...">>
TerminatedMessage == <<"Error: Timelapse thread terminated unexpectedly.">>

\* a run that goes back to the top of its loop instead of returning
ContinueRun(l) ==
    /\ pc' = [pc EXCEPT ![l] = "tl_check"]
    /\ UNCHANGED tlLocal

\* run_timelapse returns or raises: the thread ends and its locals go
EndRun(l) ==
    /\ pc' = [pc EXCEPT ![l] = Ended(l, timelapse_thread)]
    /\ args' = [args EXCEPT ![l] = NoArgs]
    /\ tl_i' = [tl_i EXCEPT ![l] = 0]
    /\ tl_cycle' = [tl_cycle EXCEPT ![l] = 0]
    /\ tl_folder' = [tl_folder EXCEPT ![l] = NoFolder]

\* POST /api/timelapse/start, up to get_camera: 409 while a loop thread is
\* alive, 400 for parameters that are not positive integers
TimelapseStartRequest(r, p) ==
    /\ IF ThreadRunning(timelapse_thread)
         THEN Answer(r, "tl_start", <<"409">>) /\ UNCHANGED args
         ELSE IF ValidParams(p)
                THEN /\ Begin(r, "tl_start", "gc_lock")
                     /\ args' = [args EXCEPT ![r] = [count |-> p.count, interval |-> p.interval]]
                ELSE Answer(r, "tl_start", <<"400">>) /\ UNCHANGED args
    /\ UNCHANGED <<sessVars, tl_i, tl_cycle, tl_folder, pvVars, tlVars, diskVars>>

\* app.timelapse_active.clear()
TimelapseStartClear(r) ==
    /\ pc[r] = "ts_clear"
    /\ timelapse_active' = FALSE
    /\ Step(r, "ts_status")
    /\ UNCHANGED <<sessVars, tlLocal, pvVars, timelapse_thread, timelapse_status, diskVars>>

\* app.timelapse_status = {"active": True, "message": "Starting...", ...}
TimelapseStartStatus(r) ==
    /\ pc[r] = "ts_status"
    /\ timelapse_status' = [active |-> TRUE, message |-> StartingMessage, count |-> 0,
                            total |-> args[r].count, folder |-> NoFolder]
    /\ Step(r, "ts_thread")
    /\ UNCHANGED <<sessVars, tlLocal, pvVars, timelapse_thread, timelapse_active, diskVars>>

\* app.timelapse_thread = threading.Thread(target=run_timelapse, args=...)
TimelapseStartThread(r) ==
    /\ pc[r] = "ts_thread"
    /\ CanCreate(TL, timelapse_thread)
    /\ LET new == NewThread(TL, timelapse_thread) IN
         /\ timelapse_thread' = new
         /\ pc' = [pc EXCEPT ![r] = "ts_run", ![new] = "created"]
         /\ args' = [args EXCEPT ![new] = args[r]]
    /\ UNCHANGED <<sessVars, op, ret, tl_i, tl_cycle, tl_folder, pvVars, timelapse_active,
                   timelapse_status, diskVars>>

\* app.timelapse_thread.start(): the attribute is read again, and a thread
\* can be started once
TimelapseStartRun(r) ==
    /\ pc[r] = "ts_run"
    /\ IF pc[timelapse_thread] = "created"
         THEN /\ pc' = [pc EXCEPT ![r] = "done", ![timelapse_thread] = "tl_enter"]
              /\ ret' = [ret EXCEPT ![r] = <<"started">>]
              /\ UNCHANGED op
         ELSE Return(r, <<"500">>)
    /\ args' = [args EXCEPT ![r] = NoArgs]
    /\ UNCHANGED <<sessVars, tl_i, tl_cycle, tl_folder, pvVars, tlVars, diskVars>>

\* POST /api/timelapse/stop: the test of the running thread
TimelapseStopRequest(r) ==
    /\ IF ThreadRunning(timelapse_thread)
         THEN Begin(r, "tl_stop", "tstop_set")
         ELSE Answer(r, "tl_stop", <<"fail", "No active timelapse to stop.">>)
    /\ UNCHANGED <<sessVars, tlLocal, pvVars, tlVars, diskVars>>

\* app.timelapse_active.set()
TimelapseStopSet(r) ==
    /\ pc[r] = "tstop_set"
    /\ timelapse_active' = TRUE
    /\ Step(r, "tstop_status")
    /\ UNCHANGED <<sessVars, tlLocal, pvVars, timelapse_thread, timelapse_status, diskVars>>

\* message "Stopping...", active False; no join
TimelapseStopStatus(r) ==
    /\ pc[r] = "tstop_status"
    /\ timelapse_status' = [timelapse_status EXCEPT !.message = StoppingMessage,
                                                    !.active = FALSE]
    /\ Return(r, <<"ok", "Stop signal sent to timelapse.">>)
    /\ UNCHANGED <<sessVars, tlLocal, pvVars, timelapse_thread, timelapse_active, diskVars>>

\* GET /api/timelapse/status: status says active while no thread is alive?
TimelapseStatusRequest(r) ==
    /\ IF timelapse_status.active /\ ~ThreadRunning(timelapse_thread)
         THEN Begin(r, "tl_status", "tst_fix")
         ELSE Answer(r, "tl_status", <<"status">>)
    /\ UNCHANGED <<sessVars, tlLocal, pvVars, tlVars, diskVars>>

\* the repair: the message only when no stop was signalled, active False
TimelapseStatusFix(r) ==
    /\ pc[r] = "tst_fix"
    /\ timelapse_status' =
         [timelapse_status EXCEPT !.message = IF timelapse_active THEN @ ELSE TerminatedMessage,
                                  !.active = FALSE]
    /\ Return(r, <<"status">>)
    /\ UNCHANGED <<sessVars, tlLocal, pvVars, timelapse_thread, timelapse_active, diskVars>>

\* run_timelapse, first statement: current_app._get_current_object().  The
\* thread is started without an application context of its own: where a new
\* thread starts with an empty context the lookup raises RuntimeError and the
\* thread ends; where it inherits the context of the thread that started it
\* the lookup gives the application.
TimelapseLoopEnter(l) ==
    /\ pc[l] = "tl_enter"
    /\ \/ /\ pc' = [pc EXCEPT ![l] = "gc_lock"]
          /\ UNCHANGED tlLocal
       \/ EndRun(l)
    /\ UNCHANGED <<sessVars, op, ret, pvVars, tlVars, diskVars>>

\* timestamp, folder name, os.makedirs: the folder name goes to the status,
\* or OSError replaces the status and ends the run
TimelapseMkdir(l) ==
    /\ pc[l] = "tl_mkdir"
    /\ LET name == FolderName(now, args[l].count, args[l].interval) IN
         \/ /\ name \notin folders
            /\ folders' = folders \cup {name}
            /\ timelapse_status' = [timelapse_status EXCEPT !.folder = name]
            /\ tl_folder' = [tl_folder EXCEPT ![l] = name]
            /\ pc' = [pc EXCEPT ![l] = "tl_mark"]
            /\ UNCHANGED <<args, tl_i, tl_cycle>>
         \/ /\ timelapse_status' = [active |-> FALSE, message |-> DirectoryErrorMessage(name),
                                    count |-> 0, total |-> args[l].count, folder |-> NoFolder]
            /\ EndRun(l)
            /\ UNCHANGED folders
    /\ UNCHANGED <<sessVars, op, ret, pvVars, timelapse_thread, timelapse_active,
                   now, files, preview_file>>

\* status["active"] = True; status["total"] = count
TimelapseMark(l) ==
    /\ pc[l] = "tl_mark"
    /\ timelapse_status' = [timelapse_status EXCEPT !.active = TRUE, !.total = args[l].count]
    /\ pc' = [pc EXCEPT ![l] = "tl_check"]
    /\ UNCHANGED <<sessVars, op, ret, tlLocal, pvVars, timelapse_thread, timelapse_active,
                   diskVars>>

\* top of the loop body: `if app.timelapse_active.is_set():`
TimelapseCheck(l) ==
    /\ pc[l] = "tl_check"
    /\ IF timelapse_active
         THEN /\ timelapse_status' = [timelapse_status EXCEPT
                                         !.message = CancelledMessage(tl_i[l]),
                                         !.active = FALSE]
              /\ EndRun(l)
         ELSE /\ pc' = [pc EXCEPT ![l] = "tl_announce"]
              /\ UNCHANGED <<timelapse_status, tlLocal>>
    /\ UNCHANGED <<sessVars, op, ret, pvVars, timelapse_thread, timelapse_active, diskVars>>

\* status["count"] = i + 1; status["message"] = "Capturing image i+1 of count...";
\* cycle_start = time.time()
TimelapseAnnounce(l) ==
    /\ pc[l] = "tl_announce"
    /\ timelapse_status' = [timelapse_status EXCEPT
                               !.count = tl_i[l] + 1,
                               !.message = CapturingMessage(tl_i[l] + 1, args[l].count)]
    /\ tl_cycle' = [tl_cycle EXCEPT ![l] = now]
    /\ pc' = [pc EXCEPT ![l] = "tl_capture"]
    /\ UNCHANGED <<sessVars, op, ret, args, tl_i, tl_folder, pvVars, timelapse_thread,
                   timelapse_active, diskVars>>

\* cam.capture_image(save_path=photo_file) inside try: the call that does not
\* bind raises TypeError, and `except Exception` writes the error and returns
TimelapseCapture(l) ==
    /\ pc[l] = "tl_capture"
    /\ IF CallBinds(CaptureImageParams, {"save_path"}, 0)
         THEN /\ pc' = [pc EXCEPT ![l] = "ci_lock"]
              /\ UNCHANGED <<timelapse_status, tlLocal>>
         ELSE /\ timelapse_status' = [timelapse_status EXCEPT
                                         !.message = CaptureErrorMessage(tl_i[l] + 1),
                                         !.active = FALSE]
              /\ EndRun(l)
    /\ UNCHANGED <<sessVars, op, ret, pvVars, timelapse_thread, timelapse_active, diskVars>>

\* a second of wall-clock time passes
Tick ==
    /\ now < MaxTime
    /\ now' = now + 1
    /\ UNCHANGED <<sessVars, callVars, tlLocal, pvVars, tlVars, folders, files, preview_file>>

\* the timelapse routes served to the request threads R, with counts up to
\* maxcount, and the loop threads
TimelapseStep(R, maxcount) ==
    \/ \E r \in R :
        \/ \E p \in ParamInputs(maxcount) : TimelapseStartRequest(r, p)
        \/ TimelapseStartClear(r)
        \/ TimelapseStartStatus(r)
        \/ TimelapseStartThread(r)
        \/ TimelapseStartRun(r)
        \/ TimelapseStopRequest(r)
        \/ TimelapseStopSet(r)
        \/ TimelapseStopStatus(r)
        \/ TimelapseStatusRequest(r)
        \/ TimelapseStatusFix(r)
        \/ Finish(r)
    \/ \E l \in TL :
        \/ TimelapseLoopEnter(l)
        \/ TimelapseMkdir(l)
        \/ TimelapseMark(l)
        \/ TimelapseCheck(l)
        \/ TimelapseAnnounce(l)
        \/ TimelapseCapture(l)
    \/ \E t \in R \cup TL :
        \/ GetCameraEnter(t)
        \/ GetCameraBody(t)
    \/ Tick

\* no timelapse route reaches a device operation, so the handle plays no part
TimelapseInit == Init /\ camera = handler

\* two clients at once
TimelapseNext == TimelapseStep(Req, RaceCount)
TimelapseSpec == TimelapseInit /\ [][TimelapseNext]_vars

\* one client, one request at a time
TimelapseRunNext == TimelapseStep(Client, MaxCount)
TimelapseRunSpec == TimelapseInit /\ [][TimelapseRunNext]_vars

\* ------------------------------------------------------------ cadence
\* The rest of the loop body of run_timelapse, which runs after a
\* capture_image call that returned: run with a session whose capture_image
\* takes the keyword save_path, on a clock that advances only while the
\* loop thread is inside the capture call or inside the wait.
MaxElapsed == 2    \* longest time (seconds) a capture call takes

WaitingMessage(n, count, w) == <<"Image", n, "of", count, "captured. Waiting", w>>

\* a wait time that is not floored at zero
WaitTimeSigned(interval, elapsed) == interval - elapsed

\* wait_time = max(0, interval - (time.time() - cycle_start))
WaitTime(interval, elapsed) ==
    IF interval - elapsed > 0 THEN interval - elapsed ELSE 0

\* success, filepath = cam.capture_image(save_path=photo_file) returns after
\* some time: (True, path) with the photo in the folder, or (False, None),
\* or it raises; the last two write the error and end the run
TimelapseCaptured(l) ==
    /\ pc[l] = "tl_capture"
    /\ \E elapsed \in 0..MaxElapsed :
         /\ now' = now + elapsed
         /\ \/ /\ files' = files \cup {<<tl_folder[l], PhotoName(tl_i[l] + 1)>>}
               /\ pc' = [pc EXCEPT ![l] = "tl_wait"]
               /\ UNCHANGED <<timelapse_status, tlLocal>>
            \/ /\ timelapse_status' = [timelapse_status EXCEPT
                                           !.message = CaptureErrorMessage(tl_i[l] + 1),
                                           !.active = FALSE]
               /\ EndRun(l)
               /\ UNCHANGED files
    /\ UNCHANGED <<sessVars, op, ret, pvVars, timelapse_thread, timelapse_active,
                   folders, preview_file>>

\* after the try: wait_time; `if i < count - 1:` the waiting message and
\* app.timelapse_active.wait(wait_time), which returns True at once when the
\* signal is set; after the last image the loop is over and the run
\* completes
TimelapseWait(l) ==
    /\ pc[l] = "tl_wait"
    /\ LET wait_time == WaitTime(args[l].interval, now - tl_cycle[l]) IN
         IF tl_i[l] < args[l].count - 1
           THEN IF timelapse_active
                  THEN /\ timelapse_status' = [timelapse_status EXCEPT
                                                  !.message = CancelledMessage(tl_i[l] + 1),
                                                  !.active = FALSE]
                       /\ EndRun(l)
                       /\ UNCHANGED now
                  ELSE /\ timelapse_status' = [timelapse_status EXCEPT
                                                  !.message = WaitingMessage(tl_i[l] + 1,
                                                                  args[l].count, wait_time)]
                       /\ now' = now + wait_time
                       /\ tl_i' = [tl_i EXCEPT ![l] = @ + 1]
                       /\ pc' = [pc EXCEPT ![l] = "tl_check"]
                       /\ UNCHANGED <<args, tl_cycle, tl_folder>>
           ELSE /\ timelapse_status' = [timelapse_status EXCEPT
                                           !.message = CompletedMessage(args[l].count,
                                                                        tl_folder[l]),
                                           !.active = FALSE]
                /\ EndRun(l)
                /\ UNCHANGED now
    /\ UNCHANGED <<sessVars, op, ret, pvVars, timelapse_thread, timelapse_active,
                   folders, files, preview_file>>

\* the application right after a start request with valid parameters has
\* been answered: the status says "Starting...", the thread registered has
\* been started, the signal is clear
CadenceInit ==
    \E p \in ParamInputs(MaxCount) :
        /\ ValidParams(p)
        /\ lock = None
        /\ handler = TRUE
        /\ camera = TRUE
        /\ pc = [t \in Threads |-> IF t \in Req \cup Callers THEN "idle"
                                   ELSE IF t = "t1" THEN "tl_enter" ELSE "unused"]
        /\ op = [t \in Req \cup Callers |-> "none"]
        /\ ret = [t \in Req \cup Callers |-> NoRet]
        /\ args = [t \in Req \cup TL |->
                     IF t = "t1" THEN [count |-> p.count, interval |-> p.interval]
                                 ELSE NoArgs]
        /\ tl_i = [t \in TL |-> 0]
        /\ tl_cycle = [t \in TL |-> 0]
        /\ tl_folder = [t \in TL |-> NoFolder]
        /\ preview_thread = None
        /\ preview_active = FALSE
        /\ preview_rate = 1
        /\ timelapse_thread = "t1"
        /\ timelapse_active = FALSE
        /\ timelapse_status = [active |-> TRUE, message |-> StartingMessage, count |-> 0,
                               total |-> p.count, folder |-> NoFolder]
        /\ now = 0
        /\ folders = {}
        /\ files = {}
        /\ preview_file = "absent"
        /\ opened = 1
        /\ outcome = None
        /\ value = [c \in Callers |-> NoValue]
        /\ value_to_set = [c \in Callers |-> NoValue]
        /\ leaf = TextLeaf(PyStr(<<"a">>), FALSE)

\* the stop route served to one client, and the loop thread of the run
CadenceNext ==
    \/ \E r \in Client :
        \/ TimelapseStopRequest(r)
        \/ TimelapseStopSet(r)
        \/ TimelapseStopStatus(r)
        \/ Finish(r)
    \/ \E l \in TL :
        \/ TimelapseLoopEnter(l)
        \/ GetCameraEnter(l)
        \/ GetCameraBody(l)
        \/ TimelapseMkdir(l)
        \/ TimelapseMark(l)
        \/ TimelapseCheck(l)
        \/ TimelapseAnnounce(l)
        \/ TimelapseCaptured(l)
        \/ TimelapseWait(l)

CadenceSpec == CadenceInit /\ [][CadenceNext]_vars

\* ============================================================ properties
\* threads inside the section of an operation that talks to the device
InDevice(t) == pc[t] \in {"init_body", "gs_in", "lc_in", "cp_in", "ci_in"}

\* loop threads that are alive
AliveLoops(pool) == {l \in pool : IsAlive(l)}

\* a thread whose run function has returned or raised
Over(position) == position \in {"dead", "unused"}

\* image files in the sequence folder of the run of loop thread l
RunFiles(l) == {f \in files : f[1] = tl_folder[l]}

\* C1: mutual exclusion on the device. In every reachable state at most one
\* thread is inside the device-touching section of a CameraHandler
\* operation; in particular a second capture_image does not enter its
\* section while a first one has not returned.
C1_DeviceMutualExclusion ==
    \A a, b \in Threads : InDevice(a) /\ InDevice(b) => a = b

\* C1 witness: one caller is inside capture_image while another has called
\* capture_image and waits for the lock
C1_Witness ==
    \E a, b \in Callers : a /= b /\ pc[a] = "ci_in" /\ pc[b] = "ci_lock" /\ lock = a

\* C2: no operation blocks for ever on the Gate. No thread ever asks for
\* the lock while it is itself the holder (such a thread never gets it,
\* never returns, and never frees the lock).
C2_NoSelfWaitOnGate ==
    \A t \in Threads : ~(pc[t] = "init_lock" /\ lock = t)

C5_RunCompletes ==
    [][\A l \in TL :
         (pc[l] \in {"tl_mark", "tl_check", "tl_announce", "tl_capture"}
            /\ Over(pc'[l]) /\ ~timelapse_active)
         => /\ timelapse_status'.message = CompletedMessage(args[l].count, tl_folder[l])
            /\ ~timelapse_status'.active
            /\ timelapse_status'.count = args[l].count
            /\ files' = files
            /\ RunFiles(l) = {<<tl_folder[l], PhotoName(n)>> : n \in 1..args[l].count}]_vars

C8_CaptureAfterPreviewSucceeds ==
    \A r \in Client :
        (preview_active /\ preview_thread = None /\ pc[r] = "done" /\ op[r] = "capture")
        => ret[r][1] = "success"

\* C9: whenever capture_image returns after it reached the device, with
\* success or failure, no connection handle is held.
C9_CaptureLeavesDisconnected ==
    [][\A c \in Callers :
         (pc[c] = "ci_in" /\ camera /\ pc'[c] = "done") => ~camera']_vars

C14_RatePositive == preview_rate > 0


\* C15: setting a writable leaf to a value whose converted form equals the
\* leaf's current value returns success with "No change needed.", goes
\* through no device write and leaves the leaf on the device as it was
\* (calls that end on a device error or an unexpected exception aside).
C15_SetCurrentValueIsNoOp ==
    [][\A c \in Callers :
         (/\ pc[c] = "sc_in"
          /\ pc'[c] /= "sc_in"
          /\ EnsureConnected
          /\ ~leaf.readonly
          /\ Convert(leaf, value[c], TRUE) = leaf.value
          /\ ret'[c] \notin {<<"False", "gphoto2 error">>, <<"False", "Unexpected error">>})
         => /\ pc'[c] = "done"
            /\ ret'[c] = <<"True", "No change needed.">>
            /\ leaf' = leaf]_vars

\* C16: when set_config returns success after a device write, the leaf read
\* from the device after the write equals the converted requested value.
C16_SuccessMeansReadBack ==
    [][\A c \in Callers :
         (/\ pc[c] = "sc_verify"
          /\ pc'[c] = "done"
          /\ ret'[c][1] = "True")
         => Str(leaf.value) = Str(value_to_set[c])]_vars

\* C17: setting a writable choice, radio or menu leaf to a value that is not
\* in its list of choices returns failure with a message that lists the
\* choices, goes through no device write and leaves the leaf as it was
\* (calls that end on a device error or an unexpected exception aside).
C17_ValueOutsideChoicesRefused ==
    [][\A c \in Callers :
         (/\ pc[c] = "sc_in"
          /\ pc'[c] /= "sc_in"
          /\ EnsureConnected
          /\ ~leaf.readonly
          /\ leaf.type \in EnumTypes
          /\ Str(value[c]) \notin leaf.choices
          /\ ret'[c] \notin {<<"False", "gphoto2 error">>, <<"False", "Unexpected error">>})
         => /\ pc'[c] = "done"
            /\ ret'[c] = <<"False", "Invalid value. Available choices:", leaf.choices>>
            /\ leaf' = leaf]_vars


C23_ListedErrorDisconnects ==
    [][\A c \in Callers :
         (pc[c] \in {"cp_in", "ci_in"} /\ camera /\ pc'[c] = "done"
            /\ outcome' \in ReleaseCodes)
         => ret'[c][1] = "False" /\ ~camera']_vars

\* C24: a capture_preview call that got an empty payload, or whose written
\* file has length zero, returns failure, leaves nothing at the target path
\* and keeps the handle.
C24_EmptyPreviewLeavesNoFile ==
    [][\A c \in Callers :
         (pc[c] = "cp_in" /\ camera /\ pc'[c] = "done"
            /\ outcome' \in {"no data", "empty file"})
         => /\ ret'[c] = <<"False">>
            /\ preview_file' = "absent"
            /\ camera' /\ opened' = opened]_vars

\* C25: a capture_preview or capture_image call that reached the device on
\* an open handle and failed with an error outside the listed codes returns
\* failure, and the session holds no handle when the call returns.
C25_UnexpectedErrorDisconnects ==
    [][\A c \in Callers :
         (pc[c] \in {"cp_in", "ci_in"} /\ camera /\ pc'[c] = "done"
            /\ outcome' \in OtherCodes \cup {"Exception"})
         => ret'[c][1] = "False" /\ ~camera']_vars


\* C26: a get_status call answers connected only with a handle held when it
\* returns; on a held handle it answers either connected, or disconnected
\* with the handle released; and a get_status call that finds no handle
\* goes on to the reconnect, which it can enter: it does not end up waiting
\* for the lock it holds itself.
C26_StatusTracksHandle ==
    [][\A c \in Callers :
         /\ (pc[c] = "gs_in" /\ pc'[c] = "done" /\ ret'[c] = <<"connected">>)
            => camera'
         /\ (pc[c] = "gs_in" /\ camera /\ pc'[c] /= "gs_in")
            => \/ ret'[c] = <<"connected">> /\ camera' /\ opened' = opened
               \/ ret'[c] = <<"disconnected">> /\ ~camera' /\ opened' = opened - 1
         /\ (pc[c] = "gs_in" /\ ~camera /\ pc'[c] /= "gs_in")
            => pc'[c] = "init_lock" /\ lock' /= c]_vars


\* ------------------------------------------------------------ both loops
\* the preview routes and the timelapse routes served to one client, with
\* the loop threads of both kinds
LoopsNext ==
    \/ \E r \in Client :
        \/ PreviewStartRequest(r)
        \/ PreviewStartClear(r)
        \/ PreviewStartThread(r)
        \/ PreviewStartRun(r)
        \/ PreviewStopRequest(r)
        \/ PreviewStopSet(r)
        \/ PreviewStopJoin(r)
        \/ PreviewStopDrop(r)
        \/ \E p \in ParamInputs(RaceCount) : TimelapseStartRequest(r, p)
        \/ TimelapseStartClear(r)
        \/ TimelapseStartStatus(r)
        \/ TimelapseStartThread(r)
        \/ TimelapseStartRun(r)
        \/ TimelapseStopRequest(r)
        \/ TimelapseStopSet(r)
        \/ TimelapseStopStatus(r)
        \/ Finish(r)
    \/ \E p \in PV :
        \/ PreviewLoopCheck(p)
        \/ PreviewLoopCapture(p)
        \/ PreviewLoopWait(p)
    \/ \E l \in TL :
        \/ TimelapseLoopEnter(l)
        \/ TimelapseMkdir(l)
        \/ TimelapseMark(l)
        \/ TimelapseCheck(l)
        \/ TimelapseAnnounce(l)
        \/ TimelapseCapture(l)
    \/ \E t \in Client \cup PV \cup TL :
        \/ GetCameraEnter(t)
        \/ GetCameraBody(t)

LoopsSpec == HandlerInit /\ [][LoopsNext]_vars


C28_FailedPreviewRetries ==
    [][\A p \in PV :
         /\ (pc[p] = "pv_capture" /\ pc'[p] /= "pv_capture" /\ pc'[p] /= "cp_lock")
            => pc'[p] = "pv_wait"
         /\ (pc[p] = "pv_wait" /\ pc'[p] /= "pv_wait") => pc'[p] = "pv_check"
         /\ (pc[p] \in {"pv_check", "pv_capture", "pv_wait"} /\ Over(pc'[p]))
            => pc[p] = "pv_check" /\ preview_active]_vars

\* a preview loop is in its wait after a failed capture, with no
\* cancellation asked for
C28_Witness ==
    \E p \in PV : pc[p] = "pv_wait" /\ ~preview_active /\ preview_thread = p


====
